---- MODULE Spec2Model ----
(***************************************************************************)
(* Model of the audio transcription WebSocket server (src/websocket.py),   *)
(* of the storage server's WebSocket endpoint and reconstruction           *)
(* (src/server.py) and of the client that analyses a reconstruction        *)
(* (src/audiosaver.py).                                                    *)
(*                                                                         *)
(* The transcription server:                                               *)
(*                                                                         *)
(* The server is one asyncio event loop.  handle_client reads the messages *)
(* of one connection one after the other and awaits handle_audio_message   *)
(* for each; handle_audio_message decodes the chunk and, when the chunk    *)
(* alone holds more than half a second of audio, awaits transcribe_audio   *)
(* on the whole chunk and logs the transcript.  The server object keeps no *)
(* audio between two messages.                                             *)
(*                                                                         *)
(* Samples are not enumerated one by one: a block of samples is a sequence *)
(* of segments [chunk, first, last], the samples first..last of the chunk  *)
(* carried by message number `chunk`.  int16 -> float32 / 32768.0 is exact *)
(* and one-to-one, so a sample keeps its identity through                  *)
(* process_audio_buffer.                                                   *)
(***************************************************************************)
EXTENDS Integers, Sequences, FiniteSets, TLC

----------------------------------------------------------------------------
(* Bounds of the model *)

\* messages sent to the server over all connections
MaxMsgs == 3
\* messages delivered to one connection and not yet read by handle_client
MaxInbox == 1

(* Program constants *)

\* self.sample_rate
sample_rate == 16000

(* Inputs *)

Conns == {"c1", "c2"}
Bots == {"botA", "botB"}
\* payload sizes in bytes: 8000, 60000 and 330000 samples of 16 bits
ByteCounts == {16000, 120000, 660000}
\* what the speech-to-text engine does on one call: raise, or return segments
\* (each segment's text is a sequence of characters)
EngineResults ==
    {[raised |-> TRUE, segments |-> <<>>],
     [raised |-> FALSE, segments |-> << <<" ">> >>],
     [raised |-> FALSE, segments |-> << <<"a">> >>]}

\* the connections to the storage server's /ws endpoint
WsConns == {"w1"}

AUDIO_EVENT == "audio_mixed_raw.data"

\* no GET /audio/{bot_id} was answered yet; audiosaver was not run
NoResponse == [kind |-> "none"]
NoRun == [phase |-> "none"]

NoCall == [window |-> <<>>]

RecordingOf(bot) == IF bot = "botA" THEN "recA" ELSE "recB"

VARIABLES
    clients,          \* self.clients: the open connections
    inbox,            \* per connection: messages received by the socket, not yet read
    inflight,         \* per connection: the transcribe_audio call its handler is in
    pending_samples,  \* per session: samples the server still holds after a handler returned
    ingested,         \* history, per session: the decoded chunks, in arrival order
    windows,          \* history, per session: the arrays handed to transcribe_audio
    engine_results,   \* history: what the engine did on each window
    transcripts,      \* the transcript output, in the order it was logged
    dropped,          \* history: the messages the transcription server read and only logged
    nmsgs,            \* messages sent so far
    ws_clients,       \* storage server: the accepted WebSocket connections
    ws_inbox,         \* storage server, per connection: messages not yet received
    ws_replies,       \* storage server, per connection: the texts sent back
    audio_collection, \* storage server: the documents, in insertion order
    response,         \* storage server: the last GET /audio/{bot_id}: the bot asked for,
                      \* the number of documents stored when it ran, what it returned
    saver             \* audiosaver: the response it got and what it printed

\* the variables of the storage server
storevars == <<ws_clients, ws_inbox, ws_replies, audio_collection, response>>

vars == <<clients, inbox, inflight, pending_samples, ingested, windows,
          engine_results, transcripts, dropped, nmsgs, storevars, saver>>

----------------------------------------------------------------------------
(* Blocks of samples *)

\* the samples 1..n of chunk id
AudioOf(id, n) == IF n = 0 THEN <<>> ELSE <<[chunk |-> id, first |-> 1, last |-> n]>>

RECURSIVE len(_)
\* len(audio_array)
len(a) == IF a = <<>> THEN 0 ELSE (a[1].last - a[1].first + 1) + len(Tail(a))

----------------------------------------------------------------------------
(* Messages *)

\* A message as the peer sends it.  json_ok: the text parses as JSON;
\* fields_ok: data.data.buffer, data.data.timestamp, data.recording.id and
\* data.bot.id are all present; buffer.padding_ok: base64.b64decode accepts it.
Message(id, json_ok, event, fields_ok, bot, padding_ok, nbytes) ==
    [id |-> id, json_ok |-> json_ok, event |-> event, fields_ok |-> fields_ok,
     bot |-> bot, recording |-> RecordingOf(bot), timestamp |-> id,
     buffer |-> [chunk |-> id, padding_ok |-> padding_ok, nbytes |-> nbytes]]

\* the well-formed chunk messages
ChunkMessages(id) ==
    {Message(id, TRUE, AUDIO_EVENT, TRUE, bot, TRUE, n) : bot \in Bots, n \in ByteCounts}

\* the other messages: another event, invalid JSON, a missing field, bad
\* base64 padding, an odd number of bytes
OtherMessages(id) ==
    {Message(id, TRUE, "bot.status_change", TRUE, "botA", TRUE, 120000),
     Message(id, FALSE, AUDIO_EVENT, TRUE, "botA", TRUE, 120000),
     Message(id, TRUE, AUDIO_EVENT, FALSE, "botA", TRUE, 120000),
     Message(id, TRUE, AUDIO_EVENT, TRUE, "botA", FALSE, 120000),
     Message(id, TRUE, AUDIO_EVENT, TRUE, "botA", TRUE, 120001)}

Messages(id) == ChunkMessages(id) \cup OtherMessages(id)

----------------------------------------------------------------------------
(* The pure functions of the server *)

\* as process_audio_buffer, the buffer read as 32-bit samples
process_audio_buffer_int32(audio_buffer) ==
    IF audio_buffer.nbytes % 4 # 0 THEN <<>>
    ELSE AudioOf(audio_buffer.chunk, audio_buffer.nbytes \div 4)

\* as process_audio_buffer, a trailing odd byte cut off instead of raising
process_audio_buffer_truncating(audio_buffer) ==
    AudioOf(audio_buffer.chunk, audio_buffer.nbytes \div 2)

\* np.frombuffer(audio_buffer, dtype=np.int16).astype(np.float32) / 32768.0;
\* a buffer that is not a whole number of int16 raises, and the except
\* returns the empty array
process_audio_buffer(audio_buffer) ==
    IF audio_buffer.nbytes % 2 # 0 THEN <<>>
    ELSE AudioOf(audio_buffer.chunk, audio_buffer.nbytes \div 2)

\* handle_audio_message up to its test: the decoded array, or "error" when a
\* field is missing or base64.b64decode raises (the except logs and returns)
DecodedArray(m) ==
    IF ~m.fields_ok \/ ~m.buffer.padding_ok THEN "error"
    ELSE process_audio_buffer([chunk |-> m.buffer.chunk, nbytes |-> m.buffer.nbytes])

\* as SufficientAudio, with >= for >
SufficientAudio_atleast(audio_array) == 2 * len(audio_array) >= sample_rate

\* if len(audio_array) > self.sample_rate * 0.5
SufficientAudio(audio_array) == 2 * len(audio_array) > sample_rate

\* the message reaches the test of handle_audio_message with an array
ReachesTest(m) == m.json_ok /\ m.event = AUDIO_EVENT /\ DecodedArray(m) # "error"

\* the message is a well-formed chunk: it reaches the test and its payload
\* is a whole number of 16-bit samples
WellFormed(m) == ReachesTest(m) /\ m.buffer.nbytes % 2 = 0

\* the message makes handle_audio_message call transcribe_audio
Transcribes(m) == ReachesTest(m) /\ SufficientAudio(DecodedArray(m))

\* as Carried, a chunk too short to transcribe kept for the next message
Carried_short(audio_array) ==
    IF 2 * len(audio_array) > sample_rate THEN <<>> ELSE audio_array

\* what handle_audio_message keeps of the array once it has returned:
\* audio_array is a local and __init__ creates no buffer
Carried(audio_array) == <<>>

\* as LoggedTimestamp, the timestamp of the message before
LoggedTimestamp_previous(m) == m.timestamp - 1

\* the timestamp handle_audio_message logs with the transcript of a chunk
LoggedTimestamp(m) == m.timestamp

RECURSIVE JoinSegments(_)
\* transcript += segment["text"] + " "
JoinSegments(segments) ==
    IF segments = <<>> THEN <<>>
    ELSE segments[1] \o <<" ">> \o JoinSegments(Tail(segments))

RECURSIVE lstrip(_)
lstrip(s) == IF s # <<>> /\ s[1] = " " THEN lstrip(Tail(s)) ELSE s

RECURSIVE rstrip(_)
rstrip(s) == IF s # <<>> /\ s[Len(s)] = " " THEN rstrip(SubSeq(s, 1, Len(s) - 1)) ELSE s

\* str.strip()
strip(s) == rstrip(lstrip(s))

\* as transcribe_audio, without the strip()
transcribe_audio_nostrip(result) ==
    IF result.raised THEN <<>> ELSE JoinSegments(result.segments)

\* transcribe_audio: the engine's text, or "" when the engine raises
transcribe_audio(result) ==
    IF result.raised THEN <<>> ELSE strip(JoinSegments(result.segments))

\* as LoopFree, the engine call run off the event loop: only the handler that
\* awaits it waits for it
LoopFree_own(c) == inflight[c] = NoCall

\* the event loop can run a step of connection c's handler: transcribe_audio
\* has no suspension point (self.model.transcribe is a plain call), so the
\* loop runs nothing else until the call in progress has returned
LoopFree(c) == \A d \in Conns : inflight[d] = NoCall

----------------------------------------------------------------------------
(* The state machine *)

Init ==
    /\ clients = {}
    /\ inbox = [c \in Conns |-> <<>>]
    /\ inflight = [c \in Conns |-> NoCall]
    /\ pending_samples = [b \in Bots |-> <<>>]
    /\ ingested = [b \in Bots |-> <<>>]
    /\ windows = [b \in Bots |-> <<>>]
    /\ engine_results = {}
    /\ transcripts = <<>>
    /\ dropped = {}
    /\ nmsgs = 0
    /\ ws_clients = {}
    /\ ws_inbox = [w \in WsConns |-> <<>>]
    /\ ws_replies = [w \in WsConns |-> <<>>]
    /\ audio_collection = <<>>
    /\ response = NoResponse
    /\ saver = NoRun

\* handle_client starts for a new connection
Connect(c) ==
    /\ c \notin clients
    /\ LoopFree(c)
    /\ clients' = clients \cup {c}
    /\ UNCHANGED <<dropped, storevars, saver>>
    /\ UNCHANGED <<inbox, inflight, pending_samples, ingested, windows,
                   engine_results, transcripts, nmsgs>>

\* the peer sends a message; the socket queues it
Deliver(c, m) ==
    /\ c \in clients
    /\ nmsgs < MaxMsgs
    /\ Len(inbox[c]) < MaxInbox
    /\ nmsgs' = nmsgs + 1
    /\ inbox' = [inbox EXCEPT ![c] = Append(@, m)]
    /\ UNCHANGED <<dropped, storevars, saver>>
    /\ UNCHANGED <<clients, inflight, pending_samples, ingested, windows,
                   engine_results, transcripts>>

\* the peer sends a well-formed chunk
Send(c, m) == Deliver(c, m)

\* the peer sends a message that is no well-formed chunk
SendOther(c, m) == Deliver(c, m)

\* one turn of handle_client's loop up to the point where the handler either
\* has returned or is inside transcribe_audio
Receive(c) ==
    /\ c \in clients
    /\ inbox[c] # <<>>
    /\ LoopFree(c)
    /\ LET m == Head(inbox[c])
           audio_array == DecodedArray(m)
       IN /\ inbox' = [inbox EXCEPT ![c] = Tail(@)]
          /\ ingested' =
                IF WellFormed(m)
                THEN [ingested EXCEPT ![m.bot] =
                        Append(@, [chunk |-> m.id, timestamp |-> m.timestamp,
                                   nbytes |-> m.buffer.nbytes,
                                   samples |-> audio_array])]
                ELSE ingested
          /\ dropped' =
                IF WellFormed(m) THEN dropped
                ELSE dropped \cup {[conn |-> c, msg |-> m]}
          /\ pending_samples' =
                IF ReachesTest(m)
                THEN [pending_samples EXCEPT ![m.bot] = Carried(audio_array)]
                ELSE pending_samples
          /\ IF Transcribes(m)
             THEN /\ inflight' = [inflight EXCEPT ![c] =
                        [window |-> audio_array, chunk |-> m.id, bot |-> m.bot,
                         recording |-> m.recording, timestamp |-> LoggedTimestamp(m)]]
                  /\ windows' = [windows EXCEPT ![m.bot] =
                        Append(@, [chunk |-> m.id, samples |-> audio_array,
                                   timestamp |-> LoggedTimestamp(m)])]
             ELSE UNCHANGED <<inflight, windows>>
    /\ UNCHANGED <<storevars, saver>>
    /\ UNCHANGED <<clients, engine_results, transcripts, nmsgs>>

\* as TranscribeDone, transcribe_audio without its except: the engine's
\* exception leaves the handlers and ends the connection
TranscribeDone_uncaught(c, result) ==
    /\ inflight[c] # NoCall
    /\ LET call == inflight[c]
           transcript == IF result.raised THEN <<>>
                         ELSE strip(JoinSegments(result.segments))
       IN /\ engine_results' = engine_results \cup
                {[chunk |-> call.chunk, bot |-> call.bot, result |-> result]}
          /\ transcripts' =
                IF transcript # <<>>
                THEN Append(transcripts,
                            [recording |-> call.recording, bot |-> call.bot,
                             timestamp |-> call.timestamp, transcript |-> transcript,
                             chunk |-> call.chunk])
                ELSE transcripts
    /\ inflight' = [inflight EXCEPT ![c] = NoCall]
    /\ clients' = IF result.raised THEN clients \ {c} ELSE clients
    /\ inbox' = IF result.raised THEN [inbox EXCEPT ![c] = <<>>] ELSE inbox
    /\ UNCHANGED <<dropped, storevars, saver>>
    /\ UNCHANGED <<pending_samples, ingested, windows, nmsgs>>

\* the engine call of connection c's handler ends; the handler logs the
\* transcript when there is one, and returns
TranscribeDone(c, result) ==
    /\ inflight[c] # NoCall
    /\ LET call == inflight[c]
           transcript == transcribe_audio(result)
       IN /\ engine_results' = engine_results \cup
                {[chunk |-> call.chunk, bot |-> call.bot, result |-> result]}
          /\ transcripts' =
                IF transcript # <<>>
                THEN Append(transcripts,
                            [recording |-> call.recording, bot |-> call.bot,
                             timestamp |-> call.timestamp, transcript |-> transcript,
                             chunk |-> call.chunk])
                ELSE transcripts
    /\ inflight' = [inflight EXCEPT ![c] = NoCall]
    /\ UNCHANGED <<dropped, storevars, saver>>
    /\ UNCHANGED <<clients, inbox, pending_samples, ingested, windows, nmsgs>>

\* the connection closes after its last message was read: the async for
\* ends and the finally discards the client
Disconnect(c) ==
    /\ c \in clients
    /\ inbox[c] = <<>>
    /\ inflight[c] = NoCall
    /\ LoopFree(c)
    /\ clients' = clients \ {c}
    /\ UNCHANGED <<dropped, storevars, saver>>
    /\ UNCHANGED <<inbox, inflight, pending_samples, ingested, windows,
                   engine_results, transcripts, nmsgs>>

Next ==
    \/ \E c \in Conns : Connect(c)
    \/ \E c \in Conns : \E m \in ChunkMessages(nmsgs + 1) : Send(c, m)
    \/ \E c \in Conns : Receive(c)
    \/ \E c \in Conns : \E result \in EngineResults : TranscribeDone(c, result)
    \/ \E c \in Conns : Disconnect(c)

Spec == Init /\ [][Next]_vars

\* one connection that also receives the messages that are no well-formed chunk
NextWire ==
    \/ Connect("c1")
    \/ \E m \in ChunkMessages(nmsgs + 1) : Send("c1", m)
    \/ \E m \in OtherMessages(nmsgs + 1) : SendOther("c1", m)
    \/ Receive("c1")
    \/ \E result \in EngineResults : TranscribeDone("c1", result)
    \/ Disconnect("c1")

SpecWire == Init /\ [][NextWire]_vars

----------------------------------------------------------------------------
(* The storage server (src/server.py): the /ws endpoint and GET /audio *)

\* the relative timestamps (seconds) a peer stamps its chunks with
Timestamps == {1, 2, 3}
\* the payload size, in bytes, of the chunks sent to the storage server
StoredByteCounts == {640}

\* the chunk messages sent to the storage server; the buffer of some is not
\* decodable base64
StoredChunkMessages(id) ==
    {[Message(id, TRUE, AUDIO_EVENT, TRUE, bot, ok, n) EXCEPT !.timestamp = ts] :
        bot \in Bots, ok \in BOOLEAN, n \in StoredByteCounts, ts \in Timestamps}

\* the other messages sent to it: another event, invalid JSON, a missing field
StoredOtherMessages(id) ==
    {Message(id, TRUE, "bot.status_change", TRUE, "botA", TRUE, 640),
     Message(id, FALSE, AUDIO_EVENT, TRUE, "botA", TRUE, 640),
     Message(id, TRUE, AUDIO_EVENT, FALSE, "botA", TRUE, 640)}

\* as StoredDoc, every document filed under one bot_id
StoredDoc_onebot(m) == [bot_id |-> "botA", buffer |-> m.buffer,
                        timestamp |-> m.timestamp]

\* the document insert_one stores for a chunk message
StoredDoc(m) == [bot_id |-> m.bot, buffer |-> m.buffer, timestamp |-> m.timestamp]

\* base64.b64decode(record["buffer"]): the bytes 1..nbytes of the chunk
b64decode(buffer) == AudioOf(buffer.chunk, buffer.nbytes)

\* as b64encode, without the = characters that fill the last group
b64encode_nopad(bytes) ==
    LET symbols == (4 * len(bytes) + 2) \div 3
    IN [padding_ok |-> TRUE, symbols |-> symbols, pad |-> 0,
        chars |-> symbols, data |-> bytes]

\* base64.b64encode(combined_bytes).decode(): a text of one symbol per 6
\* bits, filled with = to a multiple of 4 characters; data is the bytes the
\* symbols spell
b64encode(bytes) ==
    LET symbols == (4 * len(bytes) + 2) \div 3
        pad == (3 - (len(bytes) % 3)) % 3
    IN [padding_ok |-> TRUE, symbols |-> symbols, pad |-> pad,
        chars |-> symbols + pad, data |-> bytes]

RECURSIVE Take(_, _)
\* the first n bytes of a sequence of blocks
Take(a, n) ==
    IF n <= 0 \/ a = <<>> THEN <<>>
    ELSE LET size == a[1].last - a[1].first + 1
         IN IF size <= n THEN <<a[1]>> \o Take(Tail(a), n - size)
            ELSE <<[a[1] EXCEPT !.last = a[1].first + n - 1]>>

\* base64.b64decode(combined_buffer), as the saving script does it: a text
\* that is no multiple of 4 characters raises; 4 symbols give 3 bytes
b64decode_combined(text) ==
    IF ~text.padding_ok \/ (text.symbols + text.pad) % 4 # 0 THEN "error"
    ELSE Take(text.data, (3 * text.symbols) \div 4)

\* as Matching, the find without its filter
Matching_all(bot_id) == audio_collection

\* audio_collection.find({"bot_id": bot_id})
Matching(bot_id) ==
    LET Test(d) == d.bot_id = bot_id
    IN SelectSeq(audio_collection, Test)

\* as SortedFinds, without the sort: the documents in insertion order
SortedFinds_unsorted(bot_id) == {Matching(bot_id)}

\* .sort("timestamp", 1): the results list(cursor) can be; documents with
\* equal timestamps come in any order
SortedFinds(bot_id) ==
    LET docs == Matching(bot_id)
        n == Len(docs)
        orders == {p \in [1..n -> 1..n] :
                      /\ \A i, j \in 1..n : i # j => p[i] # p[j]
                      /\ \A i, j \in 1..n :
                            i < j => docs[p[i]].timestamp <= docs[p[j]].timestamp}
    IN {[i \in 1..n |-> docs[p[i]]] : p \in orders}

RECURSIVE CombineDecoded(_)
\* the loop over audio_records: each buffer decoded and appended, a buffer
\* that does not decode skipped
CombineDecoded(audio_records) ==
    IF audio_records = <<>> THEN <<>>
    ELSE (IF audio_records[1].buffer.padding_ok
          THEN b64decode(audio_records[1].buffer) ELSE <<>>)
         \o CombineDecoded(Tail(audio_records))

\* as get_combined_audio, without the test for no records: audio_records[0]
\* raises and the outer except answers
get_combined_audio_nocheck(bot_id, audio_records) ==
    IF audio_records = <<>>
    THEN [error |-> <<"Failed to retrieve audio data: ", "list index out of range">>]
    ELSE LET combined_bytes == CombineDecoded(audio_records)
         IN [bot_id |-> bot_id,
             combined_buffer |-> b64encode(combined_bytes),
             total_records |-> Len(audio_records),
             combined_bytes_length |-> len(combined_bytes),
             first_timestamp |-> audio_records[1].timestamp,
             last_timestamp |-> audio_records[Len(audio_records)].timestamp]

\* as get_combined_audio, without the try around the decoding: a buffer that
\* does not decode raises and the outer except answers
get_combined_audio_failfast(bot_id, audio_records) ==
    IF audio_records = <<>>
    THEN [error |-> <<"No audio data found for bot_id: ", bot_id>>]
    ELSE IF \E i \in 1..Len(audio_records) : ~audio_records[i].buffer.padding_ok
    THEN [error |-> <<"Failed to retrieve audio data: ", "Incorrect padding">>]
    ELSE LET combined_bytes == CombineDecoded(audio_records)
         IN [bot_id |-> bot_id,
             combined_buffer |-> b64encode(combined_bytes),
             total_records |-> Len(audio_records),
             combined_bytes_length |-> len(combined_bytes),
             first_timestamp |-> audio_records[1].timestamp,
             last_timestamp |-> audio_records[Len(audio_records)].timestamp]

\* what get_combined_audio returns for the sorted records
get_combined_audio(bot_id, audio_records) ==
    IF audio_records = <<>>
    THEN [error |-> <<"No audio data found for bot_id: ", bot_id>>]
    ELSE LET combined_bytes == CombineDecoded(audio_records)
         IN [bot_id |-> bot_id,
             combined_buffer |-> b64encode(combined_bytes),
             total_records |-> Len(audio_records),
             combined_bytes_length |-> len(combined_bytes),
             first_timestamp |-> audio_records[1].timestamp,
             last_timestamp |-> audio_records[Len(audio_records)].timestamp]

\* websocket.accept()
WsAccept(w) ==
    /\ w \notin ws_clients
    /\ ws_clients' = ws_clients \cup {w}
    /\ UNCHANGED <<ws_inbox, ws_replies, audio_collection, response>>
    /\ UNCHANGED <<clients, inbox, inflight, pending_samples, ingested, windows,
                   engine_results, transcripts, dropped, nmsgs, saver>>

\* the peer sends a message to /ws; the socket queues it
WsDeliver(w, m) ==
    /\ w \in ws_clients
    /\ nmsgs < MaxMsgs
    /\ Len(ws_inbox[w]) < MaxInbox
    /\ nmsgs' = nmsgs + 1
    /\ ws_inbox' = [ws_inbox EXCEPT ![w] = Append(@, m)]
    /\ UNCHANGED <<ws_clients, ws_replies, audio_collection, response>>
    /\ UNCHANGED <<clients, inbox, inflight, pending_samples, ingested, windows,
                   engine_results, transcripts, dropped, saver>>

\* the peer sends a chunk message
WsSend(w, m) == WsDeliver(w, m)

\* the peer sends a message that is no chunk message
WsSendOther(w, m) == WsDeliver(w, m)

\* as WsReceive, without the test of the event
WsReceive_anyevent(w) ==
    /\ w \in ws_clients
    /\ ws_inbox[w] # <<>>
    /\ LET m == Head(ws_inbox[w])
       IN /\ ws_inbox' = [ws_inbox EXCEPT ![w] = Tail(@)]
          /\ audio_collection' =
                IF m.json_ok /\ m.fields_ok
                THEN Append(audio_collection, StoredDoc(m))
                ELSE audio_collection
          /\ ws_replies' =
                IF ~m.json_ok
                THEN [ws_replies EXCEPT ![w] =
                        Append(@, [error |-> "Invalid JSON format", to |-> m.id])]
                ELSE IF ~m.fields_ok
                THEN [ws_replies EXCEPT ![w] =
                        Append(@, [error |-> "KeyError", to |-> m.id])]
                ELSE ws_replies
    /\ UNCHANGED <<ws_clients, response>>
    /\ UNCHANGED <<clients, inbox, inflight, pending_samples, ingested, windows,
                   engine_results, transcripts, dropped, nmsgs, saver>>

\* one turn of websocket_audio_endpoint's loop
WsReceive(w) ==
    /\ w \in ws_clients
    /\ ws_inbox[w] # <<>>
    /\ LET m == Head(ws_inbox[w])
       IN /\ ws_inbox' = [ws_inbox EXCEPT ![w] = Tail(@)]
          /\ audio_collection' =
                IF m.json_ok /\ m.event = AUDIO_EVENT /\ m.fields_ok
                THEN Append(audio_collection, StoredDoc(m))
                ELSE audio_collection
          /\ ws_replies' =
                IF ~m.json_ok
                THEN [ws_replies EXCEPT ![w] =
                        Append(@, [error |-> "Invalid JSON format", to |-> m.id])]
                ELSE IF m.event = AUDIO_EVENT /\ ~m.fields_ok
                THEN [ws_replies EXCEPT ![w] =
                        Append(@, [error |-> "KeyError", to |-> m.id])]
                ELSE ws_replies
    /\ UNCHANGED <<ws_clients, response>>
    /\ UNCHANGED <<clients, inbox, inflight, pending_samples, ingested, windows,
                   engine_results, transcripts, dropped, nmsgs, saver>>

\* the peer closes after its last message was received: WebSocketDisconnect
WsDisconnect(w) ==
    /\ w \in ws_clients
    /\ ws_inbox[w] = <<>>
    /\ ws_clients' = ws_clients \ {w}
    /\ UNCHANGED <<ws_inbox, ws_replies, audio_collection, response>>
    /\ UNCHANGED <<clients, inbox, inflight, pending_samples, ingested, windows,
                   engine_results, transcripts, dropped, nmsgs, saver>>

\* GET /audio/{bot_id}
Reconstruct(bot_id) ==
    /\ \E audio_records \in SortedFinds(bot_id) :
          response' = [request |-> bot_id, at |-> Len(audio_collection),
                       body |-> get_combined_audio(bot_id, audio_records)]
    /\ UNCHANGED <<ws_clients, ws_inbox, ws_replies, audio_collection>>
    /\ UNCHANGED <<clients, inbox, inflight, pending_samples, ingested, windows,
                   engine_results, transcripts, dropped, nmsgs, saver>>

NextStore ==
    \/ \E w \in WsConns : WsAccept(w)
    \/ \E w \in WsConns : \E m \in StoredChunkMessages(nmsgs + 1) : WsSend(w, m)
    \/ \E w \in WsConns : \E m \in StoredOtherMessages(nmsgs + 1) : WsSendOther(w, m)
    \/ \E w \in WsConns : WsReceive(w)
    \/ \E w \in WsConns : WsDisconnect(w)
    \/ \E bot_id \in Bots : Reconstruct(bot_id)

SpecStore == Init /\ [][NextStore]_vars

----------------------------------------------------------------------------
(* Both servers, each with one connection, fed the same kinds of message *)

\* the chunk messages of both sessions, short and long, and a message of
\* another event
PairChunkMessages(id) ==
    {m \in ChunkMessages(id) : m.buffer.nbytes \in {16000, 120000}}
PairOtherMessages(id) ==
    {Message(id, TRUE, "bot.status_change", TRUE, "botA", TRUE, 120000)}

NextPair ==
    \/ Connect("c1")
    \/ \E m \in PairChunkMessages(nmsgs + 1) : Send("c1", m)
    \/ \E m \in PairOtherMessages(nmsgs + 1) : SendOther("c1", m)
    \/ Receive("c1")
    \/ \E result \in EngineResults : TranscribeDone("c1", result)
    \/ WsAccept("w1")
    \/ \E m \in PairChunkMessages(nmsgs + 1) : WsSend("w1", m)
    \/ \E m \in PairOtherMessages(nmsgs + 1) : WsSendOther("w1", m)
    \/ WsReceive("w1")

SpecPair == Init /\ [][NextPair]_vars

----------------------------------------------------------------------------
(* The storage server with a peer that delivers a chunk message again *)

\* chunk messages stamped with distinct timestamps (their arrival numbers)
StampedChunkMessages(id) ==
    {Message(id, TRUE, AUDIO_EVENT, TRUE, bot, ok, n) :
        bot \in Bots, ok \in BOOLEAN, n \in StoredByteCounts}

\* the chunk message a stored document came from
MessageOfDoc(d) ==
    [Message(d.buffer.chunk, TRUE, AUDIO_EVENT, TRUE, d.bot_id,
             d.buffer.padding_ok, d.buffer.nbytes) EXCEPT !.timestamp = d.timestamp]

\* the peer delivers once more a chunk message the server has stored
WsResend(w, i) ==
    /\ i \in 1..Len(audio_collection)
    /\ WsDeliver(w, MessageOfDoc(audio_collection[i]))

NextRedeliver ==
    \/ WsAccept("w1")
    \/ \E m \in StampedChunkMessages(nmsgs + 1) : WsSend("w1", m)
    \/ \E i \in 1..MaxMsgs : WsResend("w1", i)
    \/ WsReceive("w1")
    \/ \E bot_id \in Bots : Reconstruct(bot_id)

SpecRedeliver == Init /\ [][NextRedeliver]_vars

----------------------------------------------------------------------------
(* The saving script (src/audiosaver.py): get_and_save_audio *)

\* the longest waveform the script is given, in runs of equal samples
MaxRuns == 2

\* the sample rate the script assumes
saver_sample_rate == 16000

\* a waveform is a sequence of runs [value, count]: count samples of value
SampleValues == {-32768, -100, -99, 0, 99, 100, 30000, 32767}
RunCounts == {16000, 80000, 112000}
Runs == [value : SampleValues, count : RunCounts]
Waveforms == UNION {[1..n -> Runs] : n \in 1..MaxRuns}

\* last_timestamp of a response: with a relative time in seconds, or without
LastTimestamps ==
    {[relative |-> e] : e \in {0, 5, 12}} \cup {[absolute |-> "2024-01-01T00:00:00Z"]}

\* the JSON bodies GET /audio/{bot_id} can answer with: an error, an empty
\* combined_buffer, and a combined_buffer holding a waveform (or text that is
\* no base64)
AudioData ==
    {[error |-> <<"No audio data found for bot_id: ", b>>] : b \in Bots}
    \cup {[bot_id |-> b, combined_buffer |-> [padding_ok |-> TRUE, samples |-> <<>>],
           last_timestamp |-> t] : b \in Bots, t \in LastTimestamps}
    \cup {[bot_id |-> b, combined_buffer |-> [padding_ok |-> ok, samples |-> w],
           last_timestamp |-> t] :
              b \in Bots, ok \in BOOLEAN, w \in Waveforms, t \in LastTimestamps}

\* an int16 result of numpy: the value modulo 2^16
int16(x) == ((x + 32768) % 65536) - 32768

\* np.abs on an int16 array keeps the int16 type
np_abs(v) == int16(IF v < 0 THEN -v ELSE v)

\* len(audio_array)
RECURSIVE array_len(_)
array_len(w) == IF w = <<>> THEN 0 ELSE w[1].count + array_len(Tail(w))

\* np.max(np.abs(audio_array)), for a non-empty array
max_amplitude(w) ==
    CHOOSE a \in {np_abs(w[i].value) : i \in 1..Len(w)} :
        \A i \in 1..Len(w) : np_abs(w[i].value) <= a

\* the script prints the silence warning
silence_warning(w) == array_len(w) > 0 /\ max_amplitude(w) < 100

\* audio_data.get('last_timestamp', {}).get('relative', 0)
expected_duration(audio_data) ==
    IF "relative" \in DOMAIN audio_data.last_timestamp
    THEN audio_data.last_timestamp.relative ELSE 0

\* as mismatch_warning, the test being >= 5
mismatch_warning_atleast(expected, w) ==
    LET a == expected * saver_sample_rate - array_len(w)
    IN (IF a < 0 THEN -a ELSE a) >= 5 * saver_sample_rate

\* the script prints the duration mismatch warning:
\* abs(expected_duration - len(audio_array) / sample_rate) > 5, both sides
\* multiplied by the sample rate
mismatch_warning(expected, w) ==
    LET a == expected * saver_sample_rate - array_len(w)
    IN (IF a < 0 THEN -a ELSE a) > 5 * saver_sample_rate

\* one run of get_and_save_audio on the body it was answered with
get_and_save_audio(audio_data) ==
    /\ saver' =
          IF "error" \in DOMAIN audio_data
          THEN [phase |-> "done", audio_data |-> audio_data, saved |-> FALSE,
                printed |-> {"Error from API"}]
          ELSE IF audio_data.combined_buffer.samples = <<>>
          THEN [phase |-> "done", audio_data |-> audio_data, saved |-> FALSE,
                printed |-> {"No audio buffer found in response"}]
          ELSE IF ~audio_data.combined_buffer.padding_ok
          THEN [phase |-> "done", audio_data |-> audio_data, saved |-> FALSE,
                printed |-> {"Error decoding base64 audio"}]
          ELSE LET audio_array == audio_data.combined_buffer.samples
               IN [phase |-> "done", audio_data |-> audio_data, saved |-> TRUE,
                   printed |->
                       {"Audio analysis", "Duration comparison"}
                       \cup (IF silence_warning(audio_array)
                             THEN {"very quiet or silent"} ELSE {})
                       \cup (IF mismatch_warning(expected_duration(audio_data), audio_array)
                             THEN {"duration mismatch"} ELSE {})]
    /\ UNCHANGED <<clients, inbox, inflight, pending_samples, ingested, windows,
                   engine_results, transcripts, dropped, nmsgs, storevars>>

\* the script is run once, on any of the bodies
NextSaver ==
    /\ saver = NoRun
    /\ \E audio_data \in AudioData : get_and_save_audio(audio_data)

SpecSaver == Init /\ [][NextSaver]_vars

----------------------------------------------------------------------------
(* Accounting of samples, per session (a session is a bot id) *)

\* window duration (10.0 s) x sample rate: 160000 samples
target_sample_count == 10 * sample_rate

RECURSIVE Canon(_)
\* the same samples, adjacent segments of one chunk merged
Canon(a) ==
    IF Len(a) < 2 THEN a
    ELSE IF a[1].chunk = a[2].chunk /\ a[1].last + 1 = a[2].first
         THEN Canon(<<[chunk |-> a[1].chunk, first |-> a[1].first, last |-> a[2].last]>>
                    \o SubSeq(a, 3, Len(a)))
         ELSE <<a[1]>> \o Canon(Tail(a))

RECURSIVE SamplesOf(_)
\* the concatenation of the sample blocks of a sequence of chunks or windows
SamplesOf(items) ==
    IF items = <<>> THEN <<>> ELSE items[1].samples \o SamplesOf(Tail(items))

RECURSIVE LongOnly(_)
\* the chunks that hold more than half a second of audio (8000 samples)
LongOnly(chunks) ==
    IF chunks = <<>> THEN <<>>
    ELSE IF 2 * (chunks[1].nbytes \div 2) > sample_rate
         THEN <<chunks[1]>> \o LongOnly(Tail(chunks))
         ELSE LongOnly(Tail(chunks))

PendingCount(s) == len(pending_samples[s])

\* this step ingests a chunk for session s
Ingests(s) == Len(ingested'[s]) = Len(ingested[s]) + 1

\* the chunk this step ingests for session s, and its sample count
IngestedChunk(s) == ingested'[s][Len(ingested'[s])]
IngestedCount(s) == IngestedChunk(s).nbytes \div 2

\* the number of windows this step emits for session s
EmittedNow(s) == Len(windows'[s]) - Len(windows[s])

\* no handler is inside a call: every ingest call has returned
AllReturned == \A c \in Conns : inflight[c] = NoCall

----------------------------------------------------------------------------
(* C1 *)

----------------------------------------------------------------------------
(* C2 *)

----------------------------------------------------------------------------
(* C3 *)

----------------------------------------------------------------------------
(* C4 *)

----------------------------------------------------------------------------
(* C5 *)

----------------------------------------------------------------------------
(* C6 *)

\* the timestamp of the chunk with this id, among the chunks ingested for s
TimestampOfChunk(s, id) ==
    LET j == CHOOSE j \in 1..Len(ingested[s]) : ingested[s][j].chunk = id
    IN ingested[s][j].timestamp

----------------------------------------------------------------------------
(* C7 *)

\* some transcription call has started and not yet returned
TranscriptionInFlight == \E d \in Conns : inflight[d] # NoCall

\* C7, as claimed: while a transcription call is in flight, a chunk that has
\* arrived on any connection, of the same or of another session, can be
\* ingested.
C7_IngestNeverBlocked ==
    \A c \in Conns :
        TranscriptionInFlight /\ c \in clients /\ inbox[c] # <<>> => ENABLED Receive(c)

----------------------------------------------------------------------------
(* C8 *)

\* the position of the window of chunk id among the windows submitted for s
SubmissionIndex(s, id) ==
    CHOOSE k \in 1..Len(windows[s]) : windows[s][k].chunk = id

\* C8: two transcript records of one session are logged in the order in which
\* their windows were submitted for transcription.
C8_TranscriptsInSubmissionOrder ==
    \A i, j \in 1..Len(transcripts) :
        i < j /\ transcripts[i].bot = transcripts[j].bot =>
            SubmissionIndex(transcripts[i].bot, transcripts[i].chunk)
                < SubmissionIndex(transcripts[j].bot, transcripts[j].chunk)

\* two records of one session were logged, and between them one of the other
C8_Witness ==
    /\ Len(transcripts) = 3
    /\ transcripts[1].bot = transcripts[3].bot
    /\ transcripts[2].bot # transcripts[1].bot

----------------------------------------------------------------------------
(* C9, C10 *)

\* the engine returned text: it did not raise, and some segment holds a
\* character that is no blank
HasText(result) ==
    /\ ~result.raised
    /\ \E i \in 1..Len(result.segments) :
          \E j \in 1..Len(result.segments[i]) : result.segments[i][j] # " "

\* the transcription of the window of chunk id failed / succeeded
Failed(id) == \E r \in engine_results : r.chunk = id /\ ~HasText(r.result)
Succeeded(id) == \E r \in engine_results : r.chunk = id /\ HasText(r.result)

\* the number of transcript records logged for the window of chunk id
CountRecords(id) ==
    Cardinality({i \in 1..Len(transcripts) : transcripts[i].chunk = id})

\* C9: when the engine fails on a window, the connection whose handler made
\* the call stays open with its queued messages (nothing is raised to the
\* ingestion path), the next chunk of the session is still submitted, and it
\* gets a transcript record when its transcription succeeds.
C9_FailureIsolated ==
    /\ [](\A s \in Bots : \A n \in 1..(Len(windows[s]) - 1) :
            Failed(windows[s][n].chunk) /\ Succeeded(windows[s][n + 1].chunk) =>
                CountRecords(windows[s][n + 1].chunk) = 1)
    /\ [][\A c \in Conns :
            /\ inflight[c] # NoCall /\ inflight'[c] = NoCall =>
                  /\ clients' = clients
                  /\ inbox' = inbox
            /\ \A s \in Bots :
                  /\ Ingests(s) /\ IngestedCount(s) > 8000
                  /\ windows[s] # <<>>
                  /\ Failed(windows[s][Len(windows[s])].chunk)
                  => EmittedNow(s) = 1]_vars

\* the engine raised on a window of a session and the next window of that
\* session has its record
C9_Witness ==
    \E s \in Bots : \E n \in 1..(Len(windows[s]) - 1) :
        /\ \E r \in engine_results : r.chunk = windows[s][n].chunk /\ r.result.raised
        /\ Succeeded(windows[s][n + 1].chunk)
        /\ CountRecords(windows[s][n + 1].chunk) = 1

\* C10: the transcript output only grows, by one record at a time, at its
\* end; a window has one record when its transcription succeeded and none
\* when it failed, returned nothing or is not finished; every record is the
\* record of a window.
C10_AppendOnlyOnePerSuccess ==
    /\ [](/\ \A s \in Bots : \A i \in 1..Len(windows[s]) :
               CountRecords(windows[s][i].chunk)
                   = IF Succeeded(windows[s][i].chunk) THEN 1 ELSE 0
          /\ \A i \in 1..Len(transcripts) :
               \E k \in 1..Len(windows[transcripts[i].bot]) :
                   windows[transcripts[i].bot][k].chunk = transcripts[i].chunk)
    /\ [][/\ Len(transcripts') \in {Len(transcripts), Len(transcripts) + 1}
          /\ SubSeq(transcripts', 1, Len(transcripts)) = transcripts]_vars

\* one window whose call raised, one whose result was blank, one with text:
\* a single record
C10_Witness ==
    /\ \E r \in engine_results : r.result.raised
    /\ \E r \in engine_results : ~r.result.raised /\ ~HasText(r.result)
    /\ \E r \in engine_results : HasText(r.result)
    /\ Len(transcripts) = 1

----------------------------------------------------------------------------
(* C11 *)

\* a message the transcription server dropped is a malformed chunk message:
\* invalid JSON, or the audio event with a missing field, bad base64 or a
\* payload that is no whole number of samples
Malformed(m) == ~m.json_ok \/ m.event = AUDIO_EVENT

\* the chunk ids that supplied samples held by the server or handed to the
\* engine for session s
ChunksUsed(s) ==
    UNION {{windows[s][i].samples[k].chunk : k \in 1..Len(windows[s][i].samples)} :
              i \in 1..Len(windows[s])} \cup
    {pending_samples[s][k].chunk : k \in 1..Len(pending_samples[s])}

\* C11: a malformed chunk message supplies no sample to any window, call or
\* pending data and leaves its connection open; every well-formed chunk read
\* from a connection, also after a malformed one, is ingested and is emitted
\* as a window exactly when it holds more than 8000 samples.
C11_MalformedDropped ==
    /\ [](\A d \in dropped :
            Malformed(d.msg) =>
                /\ \A s \in Bots : d.msg.id \notin ChunksUsed(s)
                /\ \A s \in Bots : \A j \in 1..Len(ingested[s]) :
                      ingested[s][j].chunk # d.msg.id
                /\ \A c \in Conns :
                      inflight[c] # NoCall => inflight[c].chunk # d.msg.id)
    /\ [][\A c \in Conns :
            c \in clients /\ inbox[c] # <<>> /\ inbox'[c] = Tail(inbox[c]) =>
                LET m == Head(inbox[c])
                IN IF WellFormed(m)
                   THEN /\ Ingests(m.bot)
                        /\ IngestedChunk(m.bot).chunk = m.id
                        /\ EmittedNow(m.bot) =
                              IF m.buffer.nbytes \div 2 > 8000 THEN 1 ELSE 0
                        /\ dropped' = dropped
                   ELSE /\ c \in clients'
                        /\ ingested' = ingested
                        /\ windows' = windows
                        /\ inflight' = inflight
                        /\ pending_samples' = pending_samples]_vars

\* a payload with an odd number of bytes and a message that is no JSON were
\* dropped, and the chunk that came after them on the connection was ingested
\* and handed to the engine
C11_Witness ==
    /\ \E d \in dropped : d.msg.id = 1 /\ d.msg.buffer.nbytes % 2 = 1
    /\ \E d \in dropped : d.msg.id = 2 /\ ~d.msg.json_ok
    /\ \E s \in Bots :
          /\ Len(ingested[s]) = 1
          /\ ingested[s][1].chunk = 3
          /\ Len(windows[s]) = 1
          /\ windows[s][1].chunk = 3

----------------------------------------------------------------------------
(* Reconstruction: what a response is compared with *)

\* GET /audio was answered; it was answered with a waveform
Asked == response # NoResponse
Answered == Asked /\ "error" \notin DOMAIN response.body

\* the documents of the asked session that were stored when the request ran
\* (the collection only grows), as positions in the collection
SessionDocs == {i \in 1..response.at : audio_collection[i].bot_id = response.request}

Decodable(i) == audio_collection[i].buffer.padding_ok
SkippedDocs == {i \in SessionDocs : ~Decodable(i)}

\* the payload of document i as one block of bytes
Payload(i) ==
    [chunk |-> audio_collection[i].buffer.chunk, first |-> 1,
     last |-> audio_collection[i].buffer.nbytes]

\* the blocks of bytes of the returned waveform
Data == response.body.combined_buffer.data

\* the document whose payload a block of the waveform is taken from
DocOfBlock(block) ==
    CHOOSE i \in 1..Len(audio_collection) : audio_collection[i].buffer.chunk = block.chunk

\* the blocks of the waveform are in ascending order of their chunks' timestamps
DataAscending ==
    \A k, l \in 1..Len(Data) :
        k < l => audio_collection[DocOfBlock(Data[k])].timestamp
                    <= audio_collection[DocOfBlock(Data[l])].timestamp

\* the waveform holds the payload of every decodable document of the session
\* once, and nothing else
DataIsDecodableDocs ==
    /\ \A k \in 1..Len(Data) :
          \E i \in SessionDocs : Decodable(i) /\ Data[k] = Payload(i)
    /\ \A i \in SessionDocs :
          Decodable(i) =>
              Cardinality({k \in 1..Len(Data) : Data[k].chunk = Payload(i).chunk}) = 1

----------------------------------------------------------------------------
(* C13 *)

\* C13: a reconstruction is the decoded payloads of the session's persisted
\* chunks, each once, in ascending timestamp order whatever the order they
\* were stored in, and holds no chunk of another session.
C13_AscendingTimestampOrder ==
    Answered =>
        /\ DataIsDecodableDocs
        /\ DataAscending
        /\ \A k \in 1..Len(Data) :
              audio_collection[DocOfBlock(Data[k])].bot_id = response.request

\* a reconstruction of two chunks that were stored in descending timestamp
\* order, with a chunk of the other session stored as well
C13_Witness ==
    /\ Answered
    /\ Len(Data) = 2
    /\ DocOfBlock(Data[1]) > DocOfBlock(Data[2])
    /\ \E i \in 1..response.at : audio_collection[i].bot_id # response.request

----------------------------------------------------------------------------
(* C14 *)

\* the session's documents are three decodable chunks 0, 1, 2, stored in
\* this order, with timestamps t2 < t0 < t1
ThreeOutOfOrder(i0, i1, i2) ==
    /\ SessionDocs = {i0, i1, i2}
    /\ i0 < i1 /\ i1 < i2
    /\ Decodable(i0) /\ Decodable(i1) /\ Decodable(i2)
    /\ audio_collection[i2].timestamp < audio_collection[i0].timestamp
    /\ audio_collection[i0].timestamp < audio_collection[i1].timestamp

\* C14, as claimed: the three chunks are concatenated in the order t0, t1, t2.
C14_OrderT0T1T2 ==
    Answered =>
        \A i0, i1, i2 \in 1..response.at :
            ThreeOutOfOrder(i0, i1, i2) =>
                Data = <<Payload(i0), Payload(i1), Payload(i2)>>

\* C14, amended: the three chunks are concatenated in ascending timestamp
\* order, which is t2, t0, t1.
C14_OrderT2T0T1 ==
    Answered =>
        \A i0, i1, i2 \in 1..response.at :
            ThreeOutOfOrder(i0, i1, i2) =>
                Data = <<Payload(i2), Payload(i0), Payload(i1)>>

\* such a session was reconstructed
C14_Witness ==
    /\ Answered
    /\ \E i0, i1, i2 \in 1..response.at : ThreeOutOfOrder(i0, i1, i2)
    /\ Len(Data) = 3

----------------------------------------------------------------------------
(* C15 *)

\* C15: a reconstruction asked for a session with no persisted chunk answers
\* exactly {error: "No audio data found for bot_id: X"}, and answering leaves
\* the collection as it was.
C15_NotFound ==
    /\ [](Asked /\ SessionDocs = {} =>
            response.body =
                [error |-> <<"No audio data found for bot_id: ", response.request>>])
    /\ [][response' # response =>
            /\ audio_collection' = audio_collection
            /\ ws_clients' = ws_clients
            /\ ws_inbox' = ws_inbox]_vars

\* a session without chunks was asked for while the other session had one
C15_Witness ==
    /\ Asked
    /\ SessionDocs = {}
    /\ response.at > 0
    /\ "error" \in DOMAIN response.body

----------------------------------------------------------------------------
(* C16 *)

\* C16: when chunks of the session do not decode, the reconstruction still
\* answers with a waveform: it leaves out exactly those chunks and holds the
\* decodable ones in ascending timestamp order.
C16_SkipsUndecodable ==
    Asked /\ SkippedDocs # {} =>
        /\ "error" \notin DOMAIN response.body
        /\ \A i \in SkippedDocs :
              \A k \in 1..Len(Data) : Data[k].chunk # Payload(i).chunk
        /\ Len(Data) = Cardinality(SessionDocs \ SkippedDocs)
        /\ \A i \in SessionDocs \ SkippedDocs :
              \E k \in 1..Len(Data) : Data[k] = Payload(i)
        /\ DataAscending

\* a reconstruction that left out the chunk between two decodable ones
C16_Witness ==
    /\ Answered
    /\ Cardinality(SkippedDocs) = 1
    /\ Len(Data) = 2
    /\ \E i \in SkippedDocs :
          /\ audio_collection[DocOfBlock(Data[1])].timestamp < audio_collection[i].timestamp
          /\ audio_collection[i].timestamp < audio_collection[DocOfBlock(Data[2])].timestamp

----------------------------------------------------------------------------
(* C17 *)

\* C17: a reconstruction that skipped chunks carries the number of chunks
\* it skipped, which is the number of the session's persisted chunks that do
\* not decode.
C17_SkippedCountReturned ==
    Answered /\ SkippedDocs # {} =>
        \E field \in DOMAIN response.body \ {"bot_id", "combined_buffer"} :
            response.body[field] = Cardinality(SkippedDocs)

----------------------------------------------------------------------------
(* The saving script: what its warnings are compared with *)

\* the script decoded a waveform and analysed it
Analysed == saver # NoRun /\ saver.saved

SavedWaveform == saver.audio_data.combined_buffer.samples

\* the largest absolute value of the samples, as an integer
LargestAbsolute(w) ==
    LET Abs(v) == IF v < 0 THEN -v ELSE v
    IN CHOOSE a \in {Abs(w[i].value) : i \in 1..Len(w)} :
           \A i \in 1..Len(w) : Abs(w[i].value) <= a

\* the number of samples of the waveform
RECURSIVE SampleCount(_)
SampleCount(w) == IF w = <<>> THEN 0 ELSE w[1].count + SampleCount(Tail(w))

----------------------------------------------------------------------------
(* C18 *)

\* C18: for a non-empty waveform of int16 samples the silence warning is
\* printed exactly when the largest absolute sample value is below 100, and
\* a waveform whose largest absolute value is 30000 gets none.
C18_SilenceWarning ==
    Analysed =>
        /\ ("very quiet or silent" \in saver.printed)
              <=> (LargestAbsolute(SavedWaveform) < 100)
        /\ LargestAbsolute(SavedWaveform) = 30000
              => "very quiet or silent" \notin saver.printed

----------------------------------------------------------------------------
(* C19 *)

\* C19: the duration mismatch warning is printed exactly when the relative
\* time of the last timestamp and the number of samples divided by 16000
\* differ by more than 5 seconds: 12 against 5 seconds warns, 12 against 8
\* does not, and a difference of exactly 5 does not.
C19_DurationMismatch ==
    Analysed =>
        LET t == saver.audio_data.last_timestamp
            expected == IF "relative" \in DOMAIN t THEN t.relative ELSE 0
            samples == SampleCount(SavedWaveform)
            warned == "duration mismatch" \in saver.printed
        IN /\ warned <=> \/ expected * 16000 - samples > 5 * 16000
                         \/ samples - expected * 16000 > 5 * 16000
           /\ expected = 12 /\ samples = 5 * 16000 => warned
           /\ expected = 12 /\ samples = 8 * 16000 => ~warned
           /\ expected = 12 /\ samples = 7 * 16000 => ~warned

\* the script compared 12 seconds with a waveform of 7 seconds, a difference
\* of exactly 5, and printed no mismatch warning
C19_Witness ==
    /\ Analysed
    /\ "relative" \in DOMAIN saver.audio_data.last_timestamp
    /\ saver.audio_data.last_timestamp.relative = 12
    /\ SampleCount(SavedWaveform) = 112000
    /\ "Duration comparison" \in saver.printed
    /\ "duration mismatch" \notin saver.printed

----------------------------------------------------------------------------
(* C12 *)

\* a message that is JSON and whose event is not the audio event
OtherEvent(m) == m.json_ok /\ m.event # AUDIO_EVENT

\* the state of the sessions and of the engine is left as it is
SessionsUntouched ==
    /\ ingested' = ingested
    /\ windows' = windows
    /\ pending_samples' = pending_samples
    /\ inflight' = inflight
    /\ transcripts' = transcripts
    /\ engine_results' = engine_results

\* C12: a message of another event read by either server persists nothing,
\* changes no session state, starts no transcription and sends no reply, and
\* the connection stays open with its loop free to read the next message.
C12_OtherEventIgnored ==
    /\ [][\A c \in Conns :
            c \in clients /\ inbox[c] # <<>> /\ inbox'[c] = Tail(inbox[c])
              /\ OtherEvent(Head(inbox[c])) =>
                /\ SessionsUntouched
                /\ audio_collection' = audio_collection
                /\ ws_replies' = ws_replies
                /\ c \in clients'
                /\ inflight'[c] = NoCall]_vars
    /\ [][\A w \in WsConns :
            w \in ws_clients /\ ws_inbox[w] # <<>> /\ ws_inbox'[w] = Tail(ws_inbox[w])
              /\ OtherEvent(Head(ws_inbox[w])) =>
                /\ SessionsUntouched
                /\ audio_collection' = audio_collection
                /\ ws_replies' = ws_replies
                /\ w \in ws_clients']_vars

\* the storage server read message 1, of another event, stored nothing and
\* sent no reply, then stored chunk 2; the transcription server read message
\* 3, of another event, and its connection is open with nothing in flight
C12_Witness ==
    /\ nmsgs = 3
    /\ ws_inbox["w1"] = <<>> /\ inbox["c1"] = <<>>
    /\ Len(audio_collection) = 1
    /\ audio_collection[1].buffer.chunk = 2
    /\ ws_replies["w1"] = <<>>
    /\ "w1" \in ws_clients
    /\ \E d \in dropped : d.msg.id = 3 /\ OtherEvent(d.msg)
    /\ \A s \in Bots : ingested[s] = <<>> /\ windows[s] = <<>>
    /\ "c1" \in clients
    /\ inflight["c1"] = NoCall

----------------------------------------------------------------------------
(* C20 *)

\* the documents of session s in a collection
DocsOf(collection, s) ==
    LET Test(d) == d.bot_id = s IN SelectSeq(collection, Test)

\* this step ingests a chunk of session s, or reads a chunk message of
\* session s from a connection of the storage server
StepOfSession(s) ==
    \/ Ingests(s)
    \/ \E w \in WsConns :
          /\ w \in ws_clients /\ ws_inbox[w] # <<>>
          /\ ws_inbox'[w] = Tail(ws_inbox[w])
          /\ Head(ws_inbox[w]).event = AUDIO_EVENT
          /\ Head(ws_inbox[w]).bot = s

\* C20: a step that ingests or stores a chunk of one session leaves the
\* pending samples, ingested chunks, emitted windows and persisted chunks of
\* every other session unchanged, and the windows emitted for a session are
\* those of its own chunks ingested alone: one per chunk of more than 8000
\* samples, in order, whatever was interleaved with them.
C20_SessionsIndependent ==
    /\ [](\A s \in Bots :
            /\ Len(windows[s]) = Len(LongOnly(ingested[s]))
            /\ \A i \in 1..Len(windows[s]) :
                  /\ windows[s][i].chunk = LongOnly(ingested[s])[i].chunk
                  /\ windows[s][i].samples = LongOnly(ingested[s])[i].samples)
    /\ [][\A s, t \in Bots :
            s # t /\ StepOfSession(s) =>
                /\ pending_samples'[t] = pending_samples[t]
                /\ ingested'[t] = ingested[t]
                /\ windows'[t] = windows[t]
                /\ DocsOf(audio_collection', t) = DocsOf(audio_collection, t)]_vars

\* chunks 1 and 3 of one session were ingested around chunk 2 of the other,
\* all three emitted as windows
C20_Witness ==
    \E s, t \in Bots :
        /\ s # t
        /\ Len(windows[s]) = 2
        /\ windows[s][1].chunk = 1 /\ windows[s][2].chunk = 3
        /\ Len(windows[t]) = 1
        /\ windows[t][1].chunk = 2

----------------------------------------------------------------------------
(* C21 *)

\* the number of samples session s was sent
TotalIngested(s) == len(SamplesOf(ingested[s]))

\* the transcript records made for session s
TranscriptsOf(s) == LET Test(r) == r.bot = s IN SelectSeq(transcripts, Test)

----------------------------------------------------------------------------
(* C22 *)

\* the bodies GET /audio/{bot_id} can answer with, the collection being
\* what it is
PossibleBodies(bot_id) ==
    {get_combined_audio(bot_id, audio_records) : audio_records \in SortedFinds(bot_id)}

\* C22: a reconstruction leaves the persisted chunks and the session buffers
\* unchanged; two reconstructions of one session with no chunk stored in
\* between return the same result; and a reconstruction of one session does
\* not change what a reconstruction of another session returns.
C22_ReadOnlyStateless ==
    [][/\ response' # response =>
            /\ audio_collection' = audio_collection
            /\ pending_samples' = pending_samples
            /\ ingested' = ingested
            /\ windows' = windows
            /\ \A t \in Bots : PossibleBodies(t)' = PossibleBodies(t)
       /\ (/\ response # NoResponse
           /\ response' # NoResponse
           /\ response'.request = response.request
           /\ response'.at = response.at)
              => response'.body = response.body]_vars

----------------------------------------------------------------------------
(* C23 *)

\* C23: the collection holds at most one document per (bot_id, timestamp),
\* also after a chunk message was delivered again, and a reconstruction
\* holds the payload of a persisted chunk at most once.
C23_OnePerSessionAndTimestamp ==
    /\ \A i, j \in 1..Len(audio_collection) :
          (/\ audio_collection[i].bot_id = audio_collection[j].bot_id
           /\ audio_collection[i].timestamp = audio_collection[j].timestamp) => i = j
    /\ Answered =>
          \A i \in SessionDocs :
              Cardinality({k \in 1..Len(Data) : Data[k] = Payload(i)}) <= 1

----------------------------------------------------------------------------
(* C24 *)

RECURSIVE SumBytes(_)
\* the sum of the byte lengths of the documents at the positions in S
SumBytes(S) ==
    IF S = {} THEN 0
    ELSE LET i == CHOOSE i \in S : TRUE
         IN audio_collection[i].buffer.nbytes + SumBytes(S \ {i})

\* C24: in a successful reconstruction total_records is the number of the
\* session's persisted chunks, combined_bytes_length the sum of the byte
\* lengths of those that decoded, combined_buffer decodes back to exactly
\* their bytes, and first_timestamp and last_timestamp are the smallest and
\* the largest timestamp of the session's persisted chunks.
C24_ResultFields ==
    Answered =>
        LET body == response.body
            decoded == b64decode_combined(body.combined_buffer)
        IN /\ body.total_records = Cardinality(SessionDocs)
           /\ body.combined_bytes_length = SumBytes(SessionDocs \ SkippedDocs)
           /\ decoded # "error"
           /\ len(decoded) = SumBytes(SessionDocs \ SkippedDocs)
           /\ Len(decoded) = Cardinality(SessionDocs \ SkippedDocs)
           /\ \A i \in SessionDocs \ SkippedDocs :
                 \E k \in 1..Len(decoded) : decoded[k] = Payload(i)
           /\ \A i \in SessionDocs : body.first_timestamp <= audio_collection[i].timestamp
           /\ \A i \in SessionDocs : body.last_timestamp >= audio_collection[i].timestamp
           /\ \E i \in SessionDocs : body.first_timestamp = audio_collection[i].timestamp
           /\ \E i \in SessionDocs : body.last_timestamp = audio_collection[i].timestamp

\* a reconstruction of three chunks stored with timestamps 3, 1, 2, the one
\* with timestamp 2 not decodable: 3 records, 1280 bytes, timestamps 1 and 3
C24_Witness ==
    /\ Answered
    /\ SessionDocs = {1, 2, 3}
    /\ audio_collection[1].timestamp = 3
    /\ audio_collection[2].timestamp = 1
    /\ audio_collection[3].timestamp = 2
    /\ SkippedDocs = {3}
    /\ response.body.total_records = 3
    /\ response.body.combined_bytes_length = 1280
    /\ response.body.first_timestamp = 1
    /\ response.body.last_timestamp = 3

----------------------------------------------------------------------------
(* C25 *)

\* the number of 16-bit samples the payload of message m decodes to
SamplesIn(m) == IF m.buffer.nbytes % 2 = 0 THEN m.buffer.nbytes \div 2 ELSE 0

----------------------------------------------------------------------------
(* C26 *)

\* the storage server cannot take the message as a chunk: it is no JSON, or
\* it is an audio message without one of the fields the server reads
Rejected(m) == ~m.json_ok \/ (m.event = AUDIO_EVENT /\ ~m.fields_ok)

\* C26: the storage server answers a message that is no JSON, or an audio
\* message lacking a field, with exactly one error reply, persists nothing
\* for it and keeps the connection open; it persists every well-formed audio
\* message once, as the last document, with that message's bot id, buffer
\* and timestamp, and sends no reply; so the documents are in arrival order.
C26_ErrorReplyAndPersistOnce ==
    /\ [](\A i, j \in 1..Len(audio_collection) :
            i < j => audio_collection[i].buffer.chunk < audio_collection[j].buffer.chunk)
    /\ [][\A w \in WsConns :
            (w \in ws_clients /\ ws_inbox[w] # <<>> /\ ws_inbox'[w] = Tail(ws_inbox[w])) =>
                LET m == Head(ws_inbox[w])
                IN IF Rejected(m)
                   THEN /\ audio_collection' = audio_collection
                        /\ Len(ws_replies'[w]) = Len(ws_replies[w]) + 1
                        /\ SubSeq(ws_replies'[w], 1, Len(ws_replies[w])) = ws_replies[w]
                        /\ "error" \in DOMAIN ws_replies'[w][Len(ws_replies'[w])]
                        /\ ws_replies'[w][Len(ws_replies'[w])].to = m.id
                        /\ w \in ws_clients'
                   ELSE IF m.event = AUDIO_EVENT
                   THEN /\ audio_collection' =
                              Append(audio_collection,
                                     [bot_id |-> m.bot, buffer |-> m.buffer,
                                      timestamp |-> m.timestamp])
                        /\ ws_replies' = ws_replies
                        /\ w \in ws_clients'
                   ELSE TRUE]_vars

\* message 1, no JSON, and message 2, an audio message lacking a field, were
\* each answered with one error reply, and chunk 3 sent after them on the
\* same connection was persisted
C26_Witness ==
    /\ Len(ws_replies["w1"]) = 2
    /\ ws_replies["w1"][1].to = 1
    /\ ws_replies["w1"][1].error = "Invalid JSON format"
    /\ ws_replies["w1"][2].to = 2
    /\ ws_replies["w1"][2].error = "KeyError"
    /\ Len(audio_collection) = 1
    /\ audio_collection[1].buffer.chunk = 3
    /\ "w1" \in ws_clients

====
